---- MODULE Spec2Model ----
(***************************************************************************)
(* Model of the ASL recognizer: recognize (my_recognizer.py) and the       *)
(* model selectors SelectorBIC / SelectorDIC / SelectorCV                  *)
(* (my_model_selectors.py).  The HMM library (fit / score) is an external  *)
(* capability: every call either raises or returns a log-likelihood, and   *)
(* the model draws that outcome nondeterministically at the call.          *)
(***************************************************************************)
EXTENDS Integers, Sequences, FiniteSets, TLC

VARIABLES
    \* ---- recognize ----
    models,         \* the dict of trained models, as its keys in iteration order
    items,          \* test_set.get_all_Xlengths(): item ids in iteration order
    idx,            \* number of items the outer loop has entered
    j,              \* number of words the inner loop has scored for this item
    scores,         \* the dict `scores` of the current item
    calls,          \* per item id, the outcome of each model.score call made on that item
    probabilities,  \* the list `probabilities`
    guesses,        \* the list `guesses`
    rpc,            \* position in recognize
    \* ---- ModelSelector ----
    strategy,           \* which subclass's select() runs: "BIC", "DIC" or "CV"
    n_constant,         \* self.n_constant
    min_n_components,   \* self.min_n_components
    max_n_components,   \* self.max_n_components
    n_features,         \* len(self.X[0])
    n_obs,              \* len(self.X)
    words,              \* keys of self.words in iteration order
    this_word,          \* self.this_word
    n_seqs,             \* len(self.sequences) = len(self.lengths)
    best_model,         \* best_model
    best_score,         \* best_score
    n_components,       \* loop variable of the for statement
    current_model,      \* current_model
    logL,               \* logL: a float in BIC and DIC, a list in CV
    sum_logL,           \* the list sum_logL of DIC
    word_i,             \* DIC: number of words the inner loop has taken
    fold,               \* CV: number of folds the inner loop has taken
    fallback,           \* what base_model(self.n_constant) returned
    tried,              \* per candidate of the loop so far, what happened to it
    heldOut,            \* CV: folds of the current candidate whose score call was made
    spc                 \* position in select

recVars == <<models, items, idx, j, scores, calls, probabilities, guesses, rpc>>

selIn == <<strategy, n_constant, min_n_components, max_n_components,
           n_features, n_obs, words, this_word, n_seqs>>

selVars == <<selIn, best_model, best_score, n_components, current_model,
             logL, sum_logL, word_i, fold, fallback, tried, heldOut, spc>>

vars == <<recVars, selVars>>

-----------------------------------------------------------------------------
(* Bounds *)

MaxLabels == 2      \* most entries in the model bank
MaxItems == 2       \* most items in the test set

MaxStates == 2      \* largest hidden-state count a selector is configured with
MaxWords == 3       \* most words in the training set (DIC)
MaxSeqs == 4        \* most training sequences of this_word (CV)

Vocabulary == {"A", "B", "C"}
ItemIds == 1..MaxItems

\* orders in which the test set can yield its items: ascending or descending ids
ItemOrders ==
    {[i \in 1..n |-> i] : n \in 0..MaxItems} \cup
    {[i \in 1..n |-> n + 1 - i] : n \in 0..MaxItems}

\* log-likelihoods a model.score call can return
LogLs == {-3, -1}

\* feature dimensions and observation counts of the training matrix (BIC)
FeatureDims == {1, 2}
ObsCounts == {1, 3, 20}

\* outcome of an external call: it returned v, or it raised
Ok(v) == <<"ok", v>>
Fail == <<"fail", 0>>
Failed(o) == o[1] = "fail"
Value(o) == o[2]

-----------------------------------------------------------------------------
(* Floats *)

\* float("-inf") and float("inf"): below and above every finite score
NegInf == -1000000000
PosInf == 1000000000

\* the float nan that np.average gives for an empty list
NaN == PosInf + 1

\* float comparisons; any comparison with nan is False
FloatLT(a, b) == a # NaN /\ b # NaN /\ a < b
FloatGT(a, b) == a # NaN /\ b # NaN /\ a > b

\* float subtraction a - b of finite a
FloatSub(a, b) == IF b = NaN THEN NaN ELSE a - b

RECURSIVE Sum(_)
Sum(l) == IF Len(l) = 0 THEN 0 ELSE l[1] + Sum(Tail(l))

\* np.average(l), kept exact as scale * mean for a scale the length divides
AverageTimes(scale, l) == IF Len(l) = 0 THEN NaN ELSE (Sum(l) * scale) \div Len(l)

Min(a, b) == IF a < b THEN a ELSE b

-----------------------------------------------------------------------------
(* Python dict with insertion order: a sequence of <<key, value>> pairs *)

DictKeys(d) == {d[i][1] : i \in 1..Len(d)}

DictGet(d, k) == LET i == CHOOSE n \in 1..Len(d) : d[n][1] = k IN d[i][2]

\* d[k] = v
DictSet(d, k, v) ==
    IF k \in DictKeys(d)
    THEN [i \in 1..Len(d) |-> IF d[i][1] = k THEN <<k, v>> ELSE d[i]]
    ELSE Append(d, <<k, v>>)

Range(s) == {s[i] : i \in 1..Len(s)}

\* all sequences without repetition over S of length at most n
RECURSIVE InjSeqs(_, _)
InjSeqs(S, n) ==
    IF n = 0 THEN {<<>>}
    ELSE LET shorter == InjSeqs(S, n - 1)
         IN shorter \cup
            {Append(p[1], p[2]) :
                p \in {q \in shorter \X S : Len(q[1]) = n - 1 /\ q[2] \notin Range(q[1])}}

-----------------------------------------------------------------------------
(* Fitted models *)

\* a GaussianHMM fitted with n states on the training sequences train
Model(n, train) == [n |-> n, train |-> train]

\* None
NoModel == [n |-> 0, train |-> {}]

\* self.sequences: the training sequences of this_word, in order
Sequences == [p \in 1..n_seqs |-> p]

\* the sequences behind (self.X, self.lengths)
AllSeqs == Range(Sequences)

\* the selector variables while recognize runs, the recognizer's while select runs
SelectIdle ==
    /\ strategy = "none"
    /\ n_constant = 0 /\ min_n_components = 0 /\ max_n_components = 0
    /\ n_features = 0 /\ n_obs = 0 /\ words = <<>> /\ this_word = 0 /\ n_seqs = 0
    /\ best_model = NoModel /\ best_score = 0 /\ n_components = 0
    /\ current_model = NoModel /\ logL = 0 /\ sum_logL = <<>>
    /\ word_i = 0 /\ fold = 0 /\ fallback = NoModel /\ tried = <<>> /\ heldOut = <<>> /\ spc = "idle"

RecognizeIdle ==
    /\ models = <<>> /\ items = <<>> /\ idx = 0 /\ j = 0 /\ scores = <<>>
    /\ calls = <<>> /\ probabilities = <<>> /\ guesses = <<>> /\ rpc = "idle"

-----------------------------------------------------------------------------
(* recognize *)

\* what the except clause stores for a call that raised
FailedScore == NegInf

\* MaxReplaces with a fault: a later entry with an equal key replaces the maximum
MaxReplacesOnTie(candidate, best) == candidate >= best

\* key comparison inside max(): a later entry replaces the running maximum
\* only when its key is strictly greater
MaxReplaces(candidate, best) == candidate > best

\* max(scores, key=scores.get) on a non-empty dict
RECURSIVE MaxFrom(_, _, _)
MaxFrom(d, i, best) ==
    IF i > Len(d) THEN best
    ELSE MaxFrom(d, i + 1,
                 IF MaxReplaces(d[i][2], DictGet(d, best)) THEN d[i][1] ELSE best)

PyMax(d) == MaxFrom(d, 2, d[1][1])

InitRecognize ==
    /\ models \in InjSeqs(Vocabulary, MaxLabels)
    /\ items \in ItemOrders
    /\ idx = 0
    /\ j = 0
    /\ scores = <<>>
    /\ calls = [i \in ItemIds |-> <<>>]
    /\ probabilities = <<>>
    /\ guesses = <<>>
    /\ rpc = "items"
    /\ SelectIdle

\* for i, (X, lengths) in ...items():  scores = {}
NextItem ==
    /\ rpc = "items"
    /\ idx < Len(items)
    /\ idx' = idx + 1
    /\ j' = 0
    /\ scores' = <<>>
    /\ rpc' = "words"
    /\ UNCHANGED <<models, items, calls, probabilities, guesses, selVars>>

\* scores[word] = model.score(X, lengths), the call returning v
ScoreOk ==
    /\ rpc = "words"
    /\ j < Len(models)
    /\ \E v \in LogLs :
        /\ scores' = DictSet(scores, models[j + 1], v)
        /\ calls' = [calls EXCEPT ![items[idx]] = Append(@, Ok(v))]
    /\ j' = j + 1
    /\ UNCHANGED <<models, items, idx, probabilities, guesses, rpc, selVars>>

\* the call raising: except: scores[word] = float("-inf")
ScoreRaises ==
    /\ rpc = "words"
    /\ j < Len(models)
    /\ scores' = DictSet(scores, models[j + 1], FailedScore)
    /\ calls' = [calls EXCEPT ![items[idx]] = Append(@, Fail)]
    /\ j' = j + 1
    /\ UNCHANGED <<models, items, idx, probabilities, guesses, rpc, selVars>>

\* probabilities.append(scores); guess_word = max(...); guesses.append(guess_word)
Guess ==
    /\ rpc = "words"
    /\ j = Len(models)
    /\ Len(scores) > 0
    /\ probabilities' = Append(probabilities, scores)
    /\ guesses' = Append(guesses, PyMax(scores))
    /\ rpc' = "items"
    /\ UNCHANGED <<models, items, idx, j, scores, calls, selVars>>

\* max() of an empty dict raises ValueError, which nothing catches
GuessRaises ==
    /\ rpc = "words"
    /\ j = Len(models)
    /\ Len(scores) = 0
    /\ probabilities' = Append(probabilities, scores)
    /\ rpc' = "raised"
    /\ UNCHANGED <<models, items, idx, j, scores, calls, guesses, selVars>>

\* return probabilities, guesses
Return ==
    /\ rpc = "items"
    /\ idx = Len(items)
    /\ rpc' = "returned"
    /\ UNCHANGED <<models, items, idx, j, scores, calls, probabilities, guesses, selVars>>

NextRecognize ==
    \/ NextItem
    \/ ScoreOk
    \/ ScoreRaises
    \/ Guess
    \/ GuessRaises
    \/ Return

SpecRecognize == InitRecognize /\ [][NextRecognize]_vars

-----------------------------------------------------------------------------
(* ModelSelector: what the three select() methods share *)

InitSelect ==
    /\ RecognizeIdle
    /\ strategy \in {"BIC", "DIC", "CV"}
    /\ n_constant \in 1..MaxStates
    /\ min_n_components \in 1..MaxStates
    /\ max_n_components \in min_n_components..MaxStates
    /\ IF strategy = "BIC"
       THEN n_features \in FeatureDims /\ n_obs \in ObsCounts
       ELSE n_features = 1 /\ n_obs = 1
    /\ IF strategy = "DIC"
       THEN /\ words \in {[i \in 1..n |-> i] : n \in 1..MaxWords}
            /\ this_word \in {words[1], words[Len(words)]}
       ELSE words = <<1>> /\ this_word = 1
    /\ IF strategy = "CV" THEN n_seqs \in 1..MaxSeqs ELSE n_seqs = 1
    /\ best_model = NoModel
    /\ best_score = 0
    /\ n_components = 0
    /\ current_model = NoModel
    /\ logL = IF strategy = "CV" THEN <<>> ELSE 0
    /\ sum_logL = <<>>
    /\ word_i = 0
    /\ fold = 0
    /\ fallback = NoModel
    /\ tried = <<>>
    /\ heldOut = <<>>
    /\ spc = "start"

\* best_score = float('inf') in BIC, float('-inf') in DIC and CV
InitialBest == IF strategy = "BIC" THEN PosInf ELSE NegInf

\* best_model = self.base_model(self.n_constant), the fit succeeding
BaseModelFits ==
    /\ spc = "start"
    /\ best_model' = Model(n_constant, AllSeqs)
    /\ fallback' = Model(n_constant, AllSeqs)
    /\ best_score' = InitialBest
    /\ n_components' = min_n_components
    /\ spc' = "loop"
    /\ UNCHANGED <<recVars, selIn, current_model, logL, sum_logL, word_i, fold,
                   tried, heldOut>>

\* base_model: the fit raising, except: return None
BaseModelFails ==
    /\ spc = "start"
    /\ best_model' = NoModel
    /\ fallback' = NoModel
    /\ best_score' = InitialBest
    /\ n_components' = min_n_components
    /\ spc' = "loop"
    /\ UNCHANGED <<recVars, selIn, current_model, logL, sum_logL, word_i, fold,
                   tried, heldOut>>

\* the for loop has a next value in range(min_n_components, max_n_components+1)
InRange == spc = "loop" /\ n_components <= max_n_components

\* AfterExcept with a fault: the exception leaves select
AfterExceptPropagates == "raised"

\* where control goes from `except: pass`: on to the next n_components
AfterExcept == "loop"

\* how many scores a list holds, and their sum
Tally(l) == [count |-> Len(l), sum |-> Sum(l)]

\* what `tried` records of the candidate n_components: its own score(s), and
\* the tally of the scores it gave the other words' corpora
Outcome(status, score, model, own, others, folds) ==
    [n |-> n_components, status |-> status, score |-> score, model |-> model,
     logL |-> own, others |-> others, folds |-> folds]

\* an exception inside the try block of the loop body
Raise(status, model, own, others, folds) ==
    /\ tried' = Append(tried, Outcome(status, 0, model, own, Tally(others), folds))
    /\ n_components' = n_components + 1
    /\ spc' = AfterExcept
    /\ UNCHANGED <<best_model, best_score>>

\* if <current_score beats best_score>: best_score, best_model = current ones
Compare(better, current_score, model, own, others, folds) ==
    /\ tried' = Append(tried, Outcome("compared", current_score, model, own,
                                      Tally(others), folds))
    /\ best_score' = IF better THEN current_score ELSE best_score
    /\ best_model' = IF better THEN model ELSE best_model
    /\ n_components' = n_components + 1
    /\ spc' = "loop"

\* return best_model
SelectReturn ==
    /\ spc = "loop"
    /\ n_components > max_n_components
    /\ spc' = "done"
    /\ UNCHANGED <<recVars, selIn, best_model, best_score, n_components, current_model,
                   logL, sum_logL, word_i, fold, fallback, tried, heldOut>>

-----------------------------------------------------------------------------
(* SelectorBIC.select *)

\* 1000 * ln(n), rounded, of the observation counts the model draws
LnMilli(n) == CASE n = 1 -> 0 [] n = 3 -> 1099 [] n = 20 -> 2996

\* p = n_components * n_components + 2 * n_features*n_components - 1
FreeParams(k, d) == k * k + 2 * d * k - 1

\* current_score = (-2)*logL+p*np.log(N), in thousandths
BIC(k, d, N, l) == (-2) * l * 1000 + FreeParams(k, d) * LnMilli(N)

\* BICBetter with a fault: the comparison turned round
BICBetterMaximizing(current_score, best) == FloatGT(current_score, best)

\* if current_score < best_score
BICBetter(current_score, best) == FloatLT(current_score, best)

BICFitRaises ==
    /\ strategy = "BIC"
    /\ InRange
    /\ Raise("fit_raised", NoModel, 0, <<>>, <<>>)
    /\ UNCHANGED <<recVars, selIn, current_model, logL, sum_logL, word_i, fold,
                   fallback, heldOut>>

BICScoreRaises ==
    /\ strategy = "BIC"
    /\ InRange
    /\ current_model' = Model(n_components, AllSeqs)
    /\ Raise("score_raised", current_model', 0, <<>>, <<>>)
    /\ UNCHANGED <<recVars, selIn, logL, sum_logL, word_i, fold, fallback, heldOut>>

BICScored ==
    /\ strategy = "BIC"
    /\ InRange
    /\ current_model' = Model(n_components, AllSeqs)
    /\ \E l \in LogLs :
        /\ logL' = l
        /\ LET current_score == BIC(n_components, n_features, n_obs, l)
           IN Compare(BICBetter(current_score, best_score), current_score,
                      current_model', l, <<>>, <<>>)
    /\ UNCHANGED <<recVars, selIn, sum_logL, word_i, fold, fallback, heldOut>>

-----------------------------------------------------------------------------
(* SelectorDIC.select *)

\* DICBetter with a fault: the comparison turned round
DICBetterMinimizing(current_score, best) == FloatLT(current_score, best)

\* if current_score > best_score
DICBetter(current_score, best) == FloatGT(current_score, best)

\* current_score = logL - np.average(sum_logL), times the number of other words
DIC(l, others) == FloatSub(l * Len(others), AverageTimes(Len(others), others))

DICFitRaises ==
    /\ strategy = "DIC"
    /\ InRange
    /\ Raise("fit_raised", NoModel, 0, <<>>, <<>>)
    /\ UNCHANGED <<recVars, selIn, current_model, logL, sum_logL, word_i, fold,
                   fallback, heldOut>>

\* logL = current_model.score(self.X, self.lengths) raising
DICScoreRaises ==
    /\ strategy = "DIC"
    /\ InRange
    /\ current_model' = Model(n_components, AllSeqs)
    /\ Raise("score_raised", current_model', 0, <<>>, <<>>)
    /\ UNCHANGED <<recVars, selIn, logL, sum_logL, word_i, fold, fallback, heldOut>>

\* fit and self score succeed; sum_logL = []; enter the loop over self.words
DICScored ==
    /\ strategy = "DIC"
    /\ InRange
    /\ current_model' = Model(n_components, AllSeqs)
    /\ \E l \in LogLs : logL' = l
    /\ sum_logL' = <<>>
    /\ word_i' = 0
    /\ spc' = "others"
    /\ UNCHANGED <<recVars, selIn, best_model, best_score, n_components, fold,
                   fallback, tried, heldOut>>

\* if word == self.this_word: continue
DICSkipThisWord ==
    /\ spc = "others"
    /\ word_i < Len(words)
    /\ words[word_i + 1] = this_word
    /\ word_i' = word_i + 1
    /\ UNCHANGED <<recVars, selIn, best_model, best_score, n_components, current_model,
                   logL, sum_logL, fold, fallback, tried, heldOut, spc>>

\* sum_logL.append(current_model.score(word_n, word_len))
DICOtherScored ==
    /\ spc = "others"
    /\ word_i < Len(words)
    /\ words[word_i + 1] # this_word
    /\ \E v \in LogLs : sum_logL' = Append(sum_logL, v)
    /\ word_i' = word_i + 1
    /\ UNCHANGED <<recVars, selIn, best_model, best_score, n_components, current_model,
                   logL, fold, fallback, tried, heldOut, spc>>

\* the score of another word's corpus raising: control leaves the try block
DICOtherRaises ==
    /\ spc = "others"
    /\ word_i < Len(words)
    /\ words[word_i + 1] # this_word
    /\ Raise("other_raised", current_model, logL, sum_logL, <<>>)
    /\ UNCHANGED <<recVars, selIn, current_model, logL, sum_logL, word_i, fold,
                   fallback, heldOut>>

DICCompare ==
    /\ spc = "others"
    /\ word_i = Len(words)
    /\ LET current_score == DIC(logL, sum_logL)
       IN Compare(DICBetter(current_score, best_score), current_score,
                  current_model, logL, sum_logL, <<>>)
    /\ UNCHANGED <<recVars, selIn, current_model, logL, sum_logL, word_i, fold,
                   fallback, heldOut>>

-----------------------------------------------------------------------------
(* SelectorCV.select *)

\* n_splits=min(3,len(self.lengths))
NSplits == Min(3, n_seqs)

\* KFold rejects n_splits below 2 and, at split(), n_splits above the sample count
SplitAccepted == NSplits >= 2 /\ NSplits <= n_seqs

\* KFold without shuffling: the first n % k folds hold n \div k + 1 samples, the
\* others n \div k, taken consecutively
FoldSize(f) == (n_seqs \div NSplits) + (IF f < n_seqs % NSplits THEN 1 ELSE 0)

RECURSIVE FoldStart(_)
FoldStart(f) == IF f = 0 THEN 0 ELSE FoldStart(f - 1) + FoldSize(f - 1)

\* TrainIds with a fault: the held-out sequences stay in the training set
TrainIdsWithHeldOut(f) == 0 .. (n_seqs - 1)

\* test_id and train_id of fold f (f and the indices count from 0)
TestIds(f) == FoldStart(f) .. (FoldStart(f) + FoldSize(f) - 1)
TrainIds(f) == (0 .. (n_seqs - 1)) \ TestIds(f)

\* combine_sequences(ids, self.sequences): the sequences at those indices
CombineSequences(ids) == {Sequences[i + 1] : i \in ids}

\* if current_score > best_score
CVBetter(current_score, best) == FloatGT(current_score, best)

\* the folds of one split as heldOut records them
Split(f) == [train |-> CombineSequences(TrainIds(f)), test |-> CombineSequences(TestIds(f))]

\* FoldModel with a fault: the model is fitted on the whole corpus
FoldModelOnAllSeqs(f) == Model(n_components, AllSeqs)

\* CVFoldFailure with a fault: the folds scored so far are averaged and compared
CVFoldFailurePartialMean(status, model, folds) ==
    LET current_score == AverageTimes(6, logL)
        better == CVBetter(current_score, best_score)
    IN /\ tried' = Append(tried, Outcome(status, 0, model, logL, Tally(<<>>), folds))
       /\ best_score' = IF better THEN current_score ELSE best_score
       /\ best_model' = IF better THEN current_model ELSE best_model
       /\ n_components' = n_components + 1
       /\ spc' = "loop"

\* current_model = GaussianHMM(n_components=n_components, ...).fit(train_n, train_len)
FoldModel(f) == Model(n_components, Split(f).train)

\* a fit or score raising inside the loop over the folds: except: pass
CVFoldFailure(status, model, folds) == Raise(status, model, logL, <<>>, folds)

\* KFold(...) or its split() raising ValueError
CVSplitRaises ==
    /\ strategy = "CV"
    /\ InRange
    /\ ~SplitAccepted
    /\ Raise("split_raised", NoModel, <<>>, <<>>, <<>>)
    /\ UNCHANGED <<recVars, selIn, current_model, logL, sum_logL, word_i, fold,
                   fallback, heldOut>>

\* logL = []; enter the loop over the folds
CVSplit ==
    /\ strategy = "CV"
    /\ InRange
    /\ SplitAccepted
    /\ logL' = <<>>
    /\ fold' = 0
    /\ heldOut' = <<>>
    /\ spc' = "folds"
    /\ UNCHANGED <<recVars, selIn, best_model, best_score, n_components, current_model,
                   sum_logL, word_i, fallback, tried>>

\* GaussianHMM(...).fit(train_n, train_len) raising
CVFoldFitRaises ==
    /\ spc = "folds"
    /\ fold < NSplits
    /\ CVFoldFailure("fit_raised", NoModel, heldOut)
    /\ UNCHANGED <<recVars, selIn, current_model, logL, sum_logL, word_i, fold,
                   fallback, heldOut>>

\* current_model.score(test_n, test_len) raising
CVFoldScoreRaises ==
    /\ spc = "folds"
    /\ fold < NSplits
    /\ current_model' = FoldModel(fold)
    /\ heldOut' = Append(heldOut, Split(fold))
    /\ CVFoldFailure("score_raised", current_model', heldOut')
    /\ UNCHANGED <<recVars, selIn, logL, sum_logL, word_i, fold, fallback>>

\* logL.append(current_model.score(test_n, test_len))
CVFoldScored ==
    /\ spc = "folds"
    /\ fold < NSplits
    /\ current_model' = FoldModel(fold)
    /\ heldOut' = Append(heldOut, Split(fold))
    /\ \E v \in LogLs : logL' = Append(logL, v)
    /\ fold' = fold + 1
    /\ UNCHANGED <<recVars, selIn, best_model, best_score, n_components, sum_logL,
                   word_i, fallback, tried, spc>>

\* current_score = np.average(logL), in sixths
CVCompare ==
    /\ spc = "folds"
    /\ fold = NSplits
    /\ LET current_score == AverageTimes(6, logL)
       IN Compare(CVBetter(current_score, best_score), current_score,
                  current_model, logL, <<>>, heldOut)
    /\ UNCHANGED <<recVars, selIn, current_model, logL, sum_logL, word_i, fold,
                   fallback, heldOut>>

NextSelect ==
    \/ BaseModelFits
    \/ BaseModelFails
    \/ SelectReturn
    \/ BICFitRaises
    \/ BICScoreRaises
    \/ BICScored
    \/ DICFitRaises
    \/ DICScoreRaises
    \/ DICScored
    \/ DICSkipThisWord
    \/ DICOtherScored
    \/ DICOtherRaises
    \/ DICCompare
    \/ CVSplitRaises
    \/ CVSplit
    \/ CVFoldFitRaises
    \/ CVFoldScoreRaises
    \/ CVFoldScored
    \/ CVCompare

SpecSelect == InitSelect /\ [][NextSelect]_vars

-----------------------------------------------------------------------------
(* Properties of recognize *)

\* the score recognize must record for outcome o of a model.score call
Recorded(o) == IF Failed(o) THEN NegInf ELSE Value(o)

\* C1: every failed (item, label) score is recorded as minus infinity in that
\* item's ScoreRow, and each item's Guess is a label whose recorded score is
\* maximal in its ScoreRow, the first such label in the bank's iteration
\* order; a label whose score failed is guessed only when every label's
\* score failed for that item.  (A bank with a label gives every item its
\* Guess; a bank without one has no label to guess.)
GuessIsFirstArgMax ==
    /\ Len(models) > 0 =>
        /\ rpc # "raised"
        /\ rpc = "items" => Len(guesses) = idx /\ Len(probabilities) = idx
    /\ \A i \in 1..Len(guesses) :
        LET row == probabilities[i]
            made == calls[items[i]]
        IN /\ Len(row) = Len(models)
           /\ \A n \in 1..Len(models) : row[n] = <<models[n], Recorded(made[n])>>
           /\ \E p \in 1..Len(models) :
                /\ guesses[i] = models[p]
                /\ \A n \in 1..Len(models) : row[n][2] <= row[p][2]
                /\ \A n \in 1..(p - 1) : row[n][2] < row[p][2]
                /\ Failed(made[p]) => \A n \in 1..Len(models) : Failed(made[n])

\* C1 witness: two items are guessed, one where every score failed and one
\* where the first two labels tie at a real score and the first is guessed
GuessIsFirstArgMaxWitness ==
    /\ rpc = "returned"
    /\ Len(guesses) = 2
    /\ \E i \in 1..2 : \A n \in 1..Len(models) : Failed(calls[items[i]][n])
    /\ \E i \in 1..2 :
        /\ Len(models) >= 2
        /\ ~Failed(calls[items[i]][1])
        /\ calls[items[i]][1] = calls[items[i]][2]
        /\ guesses[i] = models[1]

\* C2: recognize never raises to its caller, whatever labels the bank lacks,
\* and no Guess is a label absent from the bank.
RecognizeNeverFails ==
    /\ rpc # "raised"
    /\ \A i \in 1..Len(guesses) : guesses[i] \in Range(models)

\* one ScoreRow and one Guess per test item, in the test set's item order,
\* every ScoreRow keyed by exactly the bank's labels
OutputsWellFormed ==
    /\ Len(probabilities) = Len(items)
    /\ Len(guesses) = Len(items)
    /\ \A i \in 1..Len(items) :
        /\ DictKeys(probabilities[i]) = Range(models)
        /\ \A n \in 1..Len(models) :
            DictGet(probabilities[i], models[n]) = Recorded(calls[items[i]][n])

\* C3: for every bank and test corpus recognize returns one ScoreRow and one
\* Guess per test item, in the test corpus's item order, every ScoreRow keyed
\* by exactly the bank's labels.
RecognizeReturnsOutputs ==
    rpc \notin {"items", "words"} => rpc = "returned" /\ OutputsWellFormed

\* What recognize does establish of its outputs: whenever it returns they are
\* well formed (it returns for every bank that holds at least one label).
ReturnedOutputsWellFormed ==
    /\ rpc = "returned" => OutputsWellFormed
    /\ Len(models) > 0 => rpc # "raised"

-----------------------------------------------------------------------------
(* Properties of the selectors *)

Candidates == min_n_components..max_n_components

\* the candidates of the loop that reached the comparison with best_score
Compared == {i \in 1..Len(tried) : tried[i].status = "compared"}

\* C4: whatever the range, constant_states and the fit/score outcomes, the
\* model SelectorBIC.select returns has a state count within
\* [min_states, max_states] and a BIC no greater than the BIC of every
\* candidate that was fit successfully.
BICWinnerAlwaysInRange ==
    (strategy = "BIC" /\ spc = "done") =>
        /\ best_model.n \in Candidates
        /\ \A i \in Compared : best_score <= tried[i].score

\* the BIC of candidate i in thousandths, from its own log-likelihood:
\* -2*logL + p*ln(N) with p = k*k + 2*d*k - 1
BICOf(i) ==
    LET k == tried[i].n
    IN (tried[i].n * k + 2 * n_features * k - 1) * LnMilli(n_obs) - 2000 * tried[i].logL

\* C4 as amended: when at least one candidate is fit and scored, the returned
\* model is such a candidate, its state count lies within
\* [min_states, max_states] and its BIC is no greater than that of every
\* candidate fit and scored; when none is, the result is what the fit at
\* constant_states gave.
BICWinnerMinimal ==
    (strategy = "BIC" /\ spc = "done") =>
        IF Compared = {}
        THEN best_model = fallback
        ELSE \E i \in Compared :
                /\ best_model = Model(tried[i].n, AllSeqs)
                /\ best_model.n \in Candidates
                /\ best_score = BICOf(i)
                /\ \A c \in Compared : BICOf(i) <= BICOf(c)

\* C4 witness: two candidates were fit and scored, and the one returned has
\* the lower log-likelihood of the two but the lower BIC
BICWinnerMinimalWitness ==
    /\ strategy = "BIC" /\ spc = "done"
    /\ Cardinality(Compared) >= 2
    /\ \E i, c \in Compared :
        /\ best_model.n = tried[i].n
        /\ tried[i].logL < tried[c].logL
        /\ BICOf(i) < BICOf(c)

\* DIC of candidate i times the number of other words, from the scores recorded
DICOf(i) == tried[i].logL * tried[i].others.count - tried[i].others.sum

\* the candidates whose DIC exists: compared, over at least one other word
Evaluated == {i \in Compared : tried[i].others.count > 0}

\* C5: the model SelectorDIC.select returns has a DIC (own log-likelihood
\* minus the mean log-likelihood over the other words' corpora) no smaller
\* than that of every candidate evaluated successfully; with this_word the
\* only word no candidate has a DIC and the fit at constant_states is returned.
DICWinnerMaximal ==
    (strategy = "DIC" /\ spc = "done") =>
        /\ \A c \in Evaluated :
            \E i \in Evaluated :
                /\ best_model = tried[i].model
                /\ tried[i].model = Model(tried[i].n, AllSeqs)
                /\ DICOf(i) >= DICOf(c)
        /\ \A i \in Evaluated : tried[i].others.count = Len(words) - 1
        /\ Evaluated = {} => best_model = fallback

\* C5 witness: two candidates with the same own log-likelihood were evaluated
\* over two other words, and the later one wins on the other words' scores
DICWinnerMaximalWitness ==
    /\ strategy = "DIC" /\ spc = "done"
    /\ Len(words) = 3
    /\ \E i, c \in Evaluated :
        /\ c < i
        /\ best_model.n = tried[i].n
        /\ tried[i].logL = tried[c].logL
        /\ DICOf(i) > DICOf(c)

\* C6: a candidate whose fit and own score succeeded still competes for the
\* maximum when the score of one competing word's corpus fails.
DICOtherFailureKeepsCandidate ==
    strategy = "DIC" =>
        \A i \in 1..Len(tried) :
            tried[i].status \in {"other_raised", "compared"} => i \in Compared

\* the folds recorded for candidate t are non-empty, disjoint from their
\* training sets and from one another
FoldsSound(t) ==
    \A f \in 1..Len(t.folds) :
        /\ t.folds[f].test # {}
        /\ t.folds[f].train # {}
        /\ t.folds[f].test \cap t.folds[f].train = {}
        /\ t.folds[f].test \cup t.folds[f].train = AllSeqs
        /\ \A g \in 1..(f - 1) : t.folds[g].test \cap t.folds[f].test = {}

\* C7: every candidate whose fits and scores all succeed is evaluated on
\* exactly min(3, n) folds, for every n >= 1; every fold is non-empty and no
\* held-out sequence is in its fold's training set.
CVFoldCountFromOne ==
    strategy = "CV" =>
        \A i \in 1..Len(tried) :
            /\ tried[i].status \in {"compared", "split_raised"} =>
                    Len(tried[i].folds) = Min(3, n_seqs)
            /\ FoldsSound(tried[i])

\* C7 as amended: for n >= 2 every candidate whose fits and scores all
\* succeed is evaluated on exactly min(3, n) folds; every fold scored is
\* non-empty, disjoint from its training set and from the earlier folds; for
\* n = 1 the split is rejected and no fold of any candidate is evaluated.
CVFoldCount ==
    strategy = "CV" =>
        \A i \in 1..Len(tried) :
            /\ FoldsSound(tried[i])
            /\ Len(tried[i].folds) <= Min(3, n_seqs)
            /\ n_seqs >= 2 =>
                /\ tried[i].status # "split_raised"
                /\ tried[i].status = "compared" =>
                    /\ Len(tried[i].folds) = Min(3, n_seqs)
                    /\ Len(tried[i].logL) = Min(3, n_seqs)
                    /\ UNION {tried[i].folds[f].test : f \in 1..Len(tried[i].folds)} = AllSeqs
            /\ n_seqs = 1 => tried[i].status = "split_raised" /\ tried[i].folds = <<>>

\* C7 witness: a corpus of two sequences, a candidate evaluated on two folds
CVFoldCountWitness ==
    /\ strategy = "CV"
    /\ n_seqs = 2
    /\ \E i \in Compared : Len(tried[i].folds) = 2

\* C8: select never raises; every candidate of [min_states, max_states] is
\* tried, in order, whatever failed before it; and when no candidate gets
\* through, the result is the fit at constant_states, or no model when that
\* fit failed.
SelectRecoversLocally ==
    spc # "idle" =>
        /\ spc # "raised"
        /\ \A i \in 1..Len(tried) : tried[i].n = min_n_components + i - 1
        /\ spc = "done" =>
            /\ Len(tried) = max_n_components - min_n_components + 1
            /\ Compared = {} =>
                /\ best_model = fallback
                /\ fallback \in {Model(n_constant, AllSeqs), NoModel}

\* C8 witness: the first candidate failed, the second was still tried and
\* failed too, and select returned no model
SelectRecoversLocallyWitness ==
    /\ spc = "done"
    /\ Len(tried) = 2
    /\ Compared = {}
    /\ best_model = NoModel

\* a step in which a fit or a score of a fold raises
CVFoldFailureStep ==
    /\ strategy = "CV"
    /\ spc = "folds"
    /\ Len(tried') = Len(tried) + 1
    /\ tried'[Len(tried')].status \in {"fit_raised", "score_raised"}

\* C9: in SelectorCV.select a fit or score failure in a fold leaves
\* best_model and best_score as they were, takes no mean over the folds that
\* did succeed, and passes on to the next topology.
CVFailedFoldDisqualifies ==
    [][CVFoldFailureStep =>
        /\ best_model' = best_model
        /\ best_score' = best_score
        /\ tried'[Len(tried')].score = 0
        /\ n_components' = n_components + 1
        /\ spc' = "loop"]_vars

\* C9 witness: a candidate won, the next one failed in its second fold after a
\* first fold that scored higher than the winner's mean, and the winner stands
CVFailedFoldDisqualifiesWitness ==
    /\ strategy = "CV" /\ spc = "done"
    /\ Len(tried) = 2
    /\ tried[1].status = "compared"
    /\ tried[2].status \in {"fit_raised", "score_raised"}
    /\ Len(tried[2].logL) = 1
    /\ tried[2].logL[1] * 6 > tried[1].score
    /\ best_model = tried[1].model

\* C10: the model SelectorCV.select retains for a winning candidate is the
\* one fitted on the training sequences of that candidate's last fold, a
\* strict subset of the sequences; only the fallback is fitted on them all.
CVWinnerIsLastFoldModel ==
    (strategy = "CV" /\ spc \in {"loop", "done"}) =>
        /\ fallback \in {Model(n_constant, AllSeqs), NoModel}
        /\ IF Compared = {}
           THEN best_model = fallback
           ELSE \E i \in Compared :
                    LET last == tried[i].folds[Len(tried[i].folds)]
                    IN /\ best_model = Model(tried[i].n, last.train)
                       /\ last.train = AllSeqs \ last.test
                       /\ last.test # {}
                       /\ best_model # Model(tried[i].n, AllSeqs)

\* C10 witness: select returned a winning candidate's model over four sequences
CVWinnerIsLastFoldModelWitness ==
    /\ strategy = "CV" /\ spc = "done"
    /\ n_seqs = 4
    /\ Compared # {}
    /\ best_model.train = {1, 2, 3}

====
